---- MODULE Spec2Model ----
(***************************************************************************)
(* ProblemMatchingLibrary (Tensile/MatchingLibrary.hpp): a composite       *)
(* solution library that ranks the rows of a MatchingTable by distance to  *)
(* the problem and delegates to the nested library of the matched rows.    *)
(*                                                                         *)
(* The library's own methods are translated from MatchingLibrary.hpp.     *)
(* Matching::MatchingTable (Tensile/PropertyMatching.hpp) and the nested   *)
(* SolutionLibrary implementations are not part of the sources at hand;    *)
(* they are modelled from the specification (sections 2, 4.1 and 7).       *)
(***************************************************************************)
EXTENDS Integers, Sequences, FiniteSets, TLC

VARIABLES
    table,    \* ProblemMatchingLibrary::table: the rows, in insertion order
    debug,    \* Debug::Instance(): the process-wide diagnostic flags
    last,     \* the query a caller issued last, with everything it returned
    again,    \* a later query with the inputs of `last`, and what it returned
    between,  \* number of other queries issued between `last` and `again`
    threads   \* the queries in progress on the caller threads

vars == <<table, debug, last, again, between, threads>>

----------------------------------------------------------------------------
(* Bounds of the model. *)

MaxRows    == 5    \* rows of a table
MaxK       == 3    \* numSolutions of a top-K query
MaxBatch   == 2    \* problems of a grouped-GEMM batch
MaxSmall   == 2    \* rows of a table in the two-query and multi-thread runs
MaxBetween == 1    \* other queries counted between two equal queries

Problems    == {0, 3}     \* property value (size) of a problem
HardwareSet == {1, 2}     \* capability level of the target device
Solutions   == {1, 2, 3}  \* solution identities (their index)
Indices     == {1, 2, 3}  \* index argument of getSolutionByIndex
SearchTypes == {"DEFAULT", "ALL"}
FitnessInits == {-1, 0}   \* what the caller's fitness variable holds before
Threads     == {"t1", "t2"}

NoSolution == 0    \* an empty std::shared_ptr<MySolution>
DoubleMax  == 99   \* std::numeric_limits<double>::max()

Batches == UNION {[1..n -> Problems] : n \in 1..MaxBatch}

Max(S) == CHOOSE x \in S : \A y \in S : y <= x
Min(S) == CHOOSE x \in S : \A y \in S : x <= y
Abs(x) == IF x < 0 THEN -x ELSE x

----------------------------------------------------------------------------
(* Nested candidate libraries (leaf, external).  A leaf library holds a    *)
(* set of solutions; a solution applies to a problem on some hardware or   *)
(* not.  `fails` marks a library whose calls throw.                        *)

Libraries == [sols : {{2}, {3}, {1, 2, 3}}, fails : {FALSE}]
FailingLibraries == [sols : {{1}}, fails : {TRUE}]

\* solution 1 runs anywhere, solution 2 needs an even size, solution 3 the
\* more capable device
Applicable(s, p, h) == (s = 2 => p % 2 = 0) /\ (s = 3 => h >= 2)

ApplicableAll(s, ps, h) == \A i \in 1..Len(ps) : Applicable(s, ps[i], h)

\* library->findBestSolution(problem, hardware)
NestedFindBestSolution(lib, p, h) ==
    LET ok == {s \in lib.sols : Applicable(s, p, h)}
    IN  [exc |-> lib.fails,
         sol |-> IF lib.fails \/ ok = {} THEN NoSolution ELSE Max(ok)]

\* library->findBestSolution(problems, hardware)
NestedFindBestSolutionGrouped(lib, ps, h) ==
    LET ok == {s \in lib.sols : ApplicableAll(s, ps, h)}
    IN  [exc |-> lib.fails,
         sol |-> IF lib.fails \/ ok = {} THEN NoSolution ELSE Max(ok)]

\* library->getSolutionByIndex(problem, hardware, index)
NestedGetSolutionByIndex(lib, p, h, index) ==
    [exc |-> lib.fails,
     sol |-> IF ~lib.fails /\ index \in lib.sols THEN index ELSE NoSolution]

\* row->findAllSolutions(problem, hardware, searchType)
NestedFindAllSolutions(lib, p, h, searchType) ==
    [exc |-> lib.fails,
     set |-> IF lib.fails THEN {}
             ELSE IF searchType = "DEFAULT"
                  THEN {s \in lib.sols : Applicable(s, p, h)}
                  ELSE lib.sols]

\* row->findAllSolutionsGroupedGemm(problems, hardware, searchType)
NestedFindAllSolutionsGroupedGemm(lib, ps, h, searchType) ==
    [exc |-> lib.fails,
     set |-> IF lib.fails THEN {}
             ELSE IF searchType = "DEFAULT"
                  THEN {s \in lib.sols : ApplicableAll(s, ps, h)}
                  ELSE lib.sols]

----------------------------------------------------------------------------
(* Matching::MatchingTable.  A row is a key (its point in property space)  *)
(* and a nested library; the table is the sequence of rows in insertion    *)
(* order.                                                                  *)

\* the key of the row inserted i-th: 2, 5, 1, 4, 0, 3, 6, ...
KeyAt(i) == (3 * i - 1) % 7

TablesOf(n, libs) ==
    UNION {{[i \in 1..m |-> [key |-> KeyAt(i), value |-> f[i]]] : f \in [1..m -> libs]}
           : m \in 0..n}

\* the metric fixed at construction
Distance(key, p) == Abs(key - p)

\* row i comes before row j for problem p: nearer, or as near and inserted first
Before(tbl, p, i, j) ==
    \/ Distance(tbl[i].key, p) < Distance(tbl[j].key, p)
    \/ Distance(tbl[i].key, p) = Distance(tbl[j].key, p) /\ i < j

\* table->matchesInOrder(problem): every row, nearest first
matchesInOrder(tbl, p) ==
    SortSeq([i \in 1..Len(tbl) |-> i], LAMBDA i, j : Before(tbl, p, i, j))

\* table->GetAll(): every row, in insertion order
GetAll(tbl) == [i \in 1..Len(tbl) |-> i]

\* the positions of `order` whose row resolves to a solution; a resolution
\* that throws counts as empty (specification, section 7)
Hits(resolved) ==
    {i \in 1..Len(resolved) : ~resolved[i].exc /\ resolved[i].sol # NoSolution}

\* table->findBestMatch(problem, transform), given the rows in order and what
\* transform returns for each: the first non-empty result with its row's
\* distance, and the rows the transform was called on
findBestMatch(tbl, p, order, resolved) ==
    LET hits == Hits(resolved)
        stop == IF hits = {} THEN Len(order) ELSE Min(hits)
    IN  [sol     |-> IF hits = {} THEN NoSolution ELSE resolved[stop].sol,
         fitness |-> IF hits = {} THEN DoubleMax
                     ELSE Distance(tbl[order[stop]].key, p),
         rows    |-> SubSeq(order, 1, stop)]

\* table->findTopMatch(problem, transform, numSolutions): the first
\* numSolutions non-empty results in order
findTopMatch(order, resolved, numSolutions) ==
    LET hits == Hits(resolved)
        nth(i) == Cardinality({j \in hits : j <= i})
        kept == {i \in hits : nth(i) <= numSolutions}
        stop == IF numSolutions <= 0 THEN 0
                ELSE IF Cardinality(hits) < numSolutions THEN Len(order)
                ELSE Max(kept)
        pos == [n \in 1..Cardinality(kept) |-> CHOOSE i \in kept : nth(i) = n]
    IN  [vec  |-> [n \in 1..Cardinality(kept) |-> resolved[pos[n]].sol],
         rows |-> SubSeq(order, 1, stop)]

\* table->findBestEvaluationSolution(problem, hardware, transform): resolves
\* every row and keeps the solution the evaluation policy scores best (here
\* the greatest solution index, the first such row on a tie)
findBestEvaluationSolution(order, resolved) ==
    LET hits == Hits(resolved)
    IN  [sol  |-> IF hits = {} THEN NoSolution
                  ELSE Max({resolved[i].sol : i \in hits}),
         rows |-> order]

----------------------------------------------------------------------------
(* ProblemMatchingLibrary.  Every method is a function of the table, the   *)
(* diagnostic flags and its arguments.  Its value records what the caller  *)
(* gets back (exc: an exception left the method; sol, set or vec: the      *)
(* returned solution, SolutionSet or SolutionVector; fitness: what the     *)
(* caller's fitness variable holds afterwards) and what the method did     *)
(* (calls: the nested-library call made for each row, in order).           *)

NestedCall(row, fn, ps, h, arg, searchType) ==
    [row |-> row, fn |-> fn, problems |-> ps, hardware |-> h, arg |-> arg,
     searchType |-> searchType]

Returned(exc, sol, set, vec, fitness, calls) ==
    [exc |-> exc, sol |-> sol, set |-> set, vec |-> vec, fitness |-> fitness,
     calls |-> calls]

\* slip: the lambda asks the row for its best solution, not for the index
TransformByIndex_Best(library, problem, hardware, index) ==
    NestedFindBestSolution(library, problem, hardware)

\* the lambda of getSolutionByIndex
TransformByIndex(library, problem, hardware, index) ==
    NestedGetSolutionByIndex(library, problem, hardware, index)

getSolutionByIndex(tbl, problem, hardware, index) ==
    LET order == matchesInOrder(tbl, problem)
        resolved == [r \in 1..Len(order) |->
                        TransformByIndex(tbl[order[r]].value, problem, hardware, index)]
        match == findBestMatch(tbl, problem, order, resolved)
    IN  Returned(FALSE, match.sol, {}, <<>>, DoubleMax,
                 [r \in 1..Len(match.rows) |->
                     NestedCall(match.rows[r], "getSolutionByIndex", <<problem>>,
                                hardware, index, "DEFAULT")])

\* the lambda of findBestSolution and of findTopSolutions
TransformBest(library, problem, hardware) ==
    NestedFindBestSolution(library, problem, hardware)

\* slip: the fitness is only ever written to the local
findBestSolution_LocalFitness(tbl, dbg, problem, hardware, hasFitness, fitness0) ==
    LET order == matchesInOrder(tbl, problem)
        resolved == [r \in 1..Len(order) |->
                        TransformBest(tbl[order[r]].value, problem, hardware)]
        rows == IF dbg.enableDebugSelection
                THEN findBestEvaluationSolution(order, resolved).rows
                ELSE findBestMatch(tbl, problem, order, resolved).rows
    IN  Returned(FALSE,
                 IF dbg.enableDebugSelection
                 THEN findBestEvaluationSolution(order, resolved).sol
                 ELSE findBestMatch(tbl, problem, order, resolved).sol,
                 {}, <<>>, fitness0,
                 [r \in 1..Len(rows) |->
                     NestedCall(rows[r], "findBestSolution", <<problem>>,
                                hardware, 0, "DEFAULT")])

\* slip: the fitness is set to the sentinel before the flag is looked at
findBestSolution_FitnessFirst(tbl, dbg, problem, hardware, hasFitness, fitness0) ==
    LET order == matchesInOrder(tbl, problem)
        resolved == [r \in 1..Len(order) |->
                        TransformBest(tbl[order[r]].value, problem, hardware)]
        evaluation == findBestEvaluationSolution(order, resolved)
        match == findBestMatch(tbl, problem, order, resolved)
        rows == IF dbg.enableDebugSelection THEN evaluation.rows ELSE match.rows
        calls == [r \in 1..Len(rows) |->
                     NestedCall(rows[r], "findBestSolution", <<problem>>,
                                hardware, 0, "DEFAULT")]
    IN  IF dbg.enableDebugSelection
        THEN Returned(FALSE, evaluation.sol, {}, <<>>,
                      IF hasFitness THEN DoubleMax ELSE fitness0, calls)
        ELSE Returned(FALSE, match.sol, {}, <<>>,
                      IF hasFitness THEN match.fitness ELSE fitness0, calls)

\* slip: the fitness is written only when a solution was found
findBestSolution_KeepOnMiss(tbl, dbg, problem, hardware, hasFitness, fitness0) ==
    LET order == matchesInOrder(tbl, problem)
        resolved == [r \in 1..Len(order) |->
                        TransformBest(tbl[order[r]].value, problem, hardware)]
        match == findBestMatch(tbl, problem, order, resolved)
        rows == IF dbg.enableDebugSelection
                THEN findBestEvaluationSolution(order, resolved).rows
                ELSE match.rows
    IN  Returned(FALSE,
                 IF dbg.enableDebugSelection
                 THEN findBestEvaluationSolution(order, resolved).sol
                 ELSE match.sol,
                 {}, <<>>,
                 IF ~dbg.enableDebugSelection /\ hasFitness /\ match.sol # NoSolution
                 THEN match.fitness ELSE fitness0,
                 [r \in 1..Len(rows) |->
                     NestedCall(rows[r], "findBestSolution", <<problem>>,
                                hardware, 0, "DEFAULT")])

\* hasFitness: the caller passed a fitness pointer; fitness0: what the
\* caller's variable held before the call
findBestSolution(tbl, dbg, problem, hardware, hasFitness, fitness0) ==
    LET useDebugSelection == dbg.enableDebugSelection
        order == matchesInOrder(tbl, problem)
        resolved == [r \in 1..Len(order) |->
                        TransformBest(tbl[order[r]].value, problem, hardware)]
        evaluation == findBestEvaluationSolution(order, resolved)
        match == findBestMatch(tbl, problem, order, resolved)
        rows == IF useDebugSelection THEN evaluation.rows ELSE match.rows
        calls == [r \in 1..Len(rows) |->
                     NestedCall(rows[r], "findBestSolution", <<problem>>,
                                hardware, 0, "DEFAULT")]
    IN  IF useDebugSelection
        THEN Returned(FALSE, evaluation.sol, {}, <<>>, fitness0, calls)
        ELSE Returned(FALSE, match.sol, {}, <<>>,
                      IF hasFitness THEN match.fitness ELSE fitness0, calls)

\* the loop shared by findAllSolutions and findAllSolutionsGroupedGemm:
\* `found[r]` is what the library of the r-th row of `matches` returns; an
\* exception thrown by a row leaves the loop and the method
UnionOfRows(matches, found, fn, ps, hardware, searchType) ==
    LET thrown == {r \in 1..Len(matches) : found[r].exc}
        stop == IF thrown = {} THEN Len(matches) ELSE Min(thrown)
    IN  Returned(thrown # {}, NoSolution,
                 IF thrown # {} THEN {}
                 ELSE UNION {found[r].set : r \in 1..Len(matches)},
                 <<>>, DoubleMax,
                 [r \in 1..stop |->
                     NestedCall(matches[r], fn, ps, hardware, 0, searchType)])

\* slip: the loop returns after the first row that has solutions
findAllSolutions_FirstRowOnly(tbl, problem, hardware, searchType) ==
    LET matches == IF searchType # "DEFAULT" THEN GetAll(tbl)
                   ELSE matchesInOrder(tbl, problem)
        found == [r \in 1..Len(matches) |->
                     NestedFindAllSolutions(tbl[matches[r]].value, problem,
                                            hardware, searchType)]
        full == {r \in 1..Len(matches) : found[r].set # {}}
        stop == IF full = {} THEN Len(matches) ELSE Min(full)
    IN  UnionOfRows(SubSeq(matches, 1, stop), SubSeq(found, 1, stop),
                    "findAllSolutions", <<problem>>, hardware, searchType)

\* slip: the search type is not handed on to the rows
findAllSolutions_DefaultNested(tbl, problem, hardware, searchType) ==
    LET matches == IF searchType # "DEFAULT" THEN GetAll(tbl)
                   ELSE matchesInOrder(tbl, problem)
        found == [r \in 1..Len(matches) |->
                     NestedFindAllSolutions(tbl[matches[r]].value, problem,
                                            hardware, "DEFAULT")]
    IN  UnionOfRows(matches, found, "findAllSolutions", <<problem>>, hardware,
                    "DEFAULT")

findAllSolutions(tbl, problem, hardware, searchType) ==
    LET matches == IF searchType # "DEFAULT" THEN GetAll(tbl)
                   ELSE matchesInOrder(tbl, problem)
        found == [r \in 1..Len(matches) |->
                     NestedFindAllSolutions(tbl[matches[r]].value, problem,
                                            hardware, searchType)]
    IN  UnionOfRows(matches, found, "findAllSolutions", <<problem>>, hardware,
                    searchType)

findAllSolutionsGroupedGemm(tbl, problems, hardware, searchType) ==
    LET matches == IF searchType # "DEFAULT" THEN GetAll(tbl)
                   ELSE matchesInOrder(tbl, problems[1])
        found == [r \in 1..Len(matches) |->
                     NestedFindAllSolutionsGroupedGemm(tbl[matches[r]].value,
                                                       problems, hardware, searchType)]
    IN  UnionOfRows(matches, found, "findAllSolutionsGroupedGemm", problems,
                    hardware, searchType)

\* slip: one solution too few is asked of the table
findTopSolutions_OneLess(tbl, problem, hardware, numSolutions) ==
    LET order == matchesInOrder(tbl, problem)
        resolved == [r \in 1..Len(order) |->
                        TransformBest(tbl[order[r]].value, problem, hardware)]
        top == findTopMatch(order, resolved, numSolutions - 1)
    IN  Returned(FALSE, NoSolution, {}, top.vec, DoubleMax,
                 [r \in 1..Len(top.rows) |->
                     NestedCall(top.rows[r], "findBestSolution", <<problem>>,
                                hardware, 0, "DEFAULT")])

\* slip: under debug selection only the single top solution is returned
findTopSolutions_ReadsFlag(tbl, problem, hardware, numSolutions) ==
    LET order == matchesInOrder(tbl, problem)
        resolved == [r \in 1..Len(order) |->
                        TransformBest(tbl[order[r]].value, problem, hardware)]
        top == findTopMatch(order, resolved,
                            IF debug.enableDebugSelection THEN 1 ELSE numSolutions)
    IN  Returned(FALSE, NoSolution, {}, top.vec, DoubleMax,
                 [r \in 1..Len(top.rows) |->
                     NestedCall(top.rows[r], "findBestSolution", <<problem>>,
                                hardware, 0, "DEFAULT")])

findTopSolutions(tbl, problem, hardware, numSolutions) ==
    LET order == matchesInOrder(tbl, problem)
        resolved == [r \in 1..Len(order) |->
                        TransformBest(tbl[order[r]].value, problem, hardware)]
        top == findTopMatch(order, resolved, numSolutions)
    IN  Returned(FALSE, NoSolution, {}, top.vec, DoubleMax,
                 [r \in 1..Len(top.rows) |->
                     NestedCall(top.rows[r], "findBestSolution", <<problem>>,
                                hardware, 0, "DEFAULT")])

\* the lambda of findTopSolutionsGroupedGemm
TransformBestGrouped(library, problems, hardware) ==
    NestedFindBestSolutionGrouped(library, problems, hardware)

\* slip: the table is asked with the last problem of the batch
findTopSolutionsGroupedGemm_LastProblem(tbl, problems, hardware, numSolutions) ==
    LET order == matchesInOrder(tbl, problems[Len(problems)])
        resolved == [r \in 1..Len(order) |->
                        TransformBestGrouped(tbl[order[r]].value, problems, hardware)]
        top == findTopMatch(order, resolved, numSolutions)
    IN  Returned(FALSE, NoSolution, {}, top.vec, DoubleMax,
                 [r \in 1..Len(top.rows) |->
                     NestedCall(top.rows[r], "findBestSolution", problems,
                                hardware, 0, "DEFAULT")])

findTopSolutionsGroupedGemm(tbl, problems, hardware, numSolutions) ==
    LET order == matchesInOrder(tbl, problems[1])
        resolved == [r \in 1..Len(order) |->
                        TransformBestGrouped(tbl[order[r]].value, problems, hardware)]
        top == findTopMatch(order, resolved, numSolutions)
    IN  Returned(FALSE, NoSolution, {}, top.vec, DoubleMax,
                 [r \in 1..Len(top.rows) |->
                     NestedCall(top.rows[r], "findBestSolution", problems,
                                hardware, 0, "DEFAULT")])

----------------------------------------------------------------------------
(* A query: the method a caller invokes and its arguments.  `problems` is  *)
(* the batch of a grouped-GEMM query and the one problem of any other;     *)
(* `arg` is the index or numSolutions.                                     *)

Query(op, ps, h, arg, searchType, hasFitness, fitness0) ==
    [op |-> op, problems |-> ps, hardware |-> h, arg |-> arg,
     searchType |-> searchType, hasFitness |-> hasFitness, fitness0 |-> fitness0]

Queries ==
    {Query("getSolutionByIndex", <<p>>, h, i, "DEFAULT", FALSE, DoubleMax) :
        p \in Problems, h \in HardwareSet, i \in Indices}
    \cup {Query("findBestSolution", <<p>>, h, 0, "DEFAULT", FALSE, DoubleMax) :
        p \in Problems, h \in HardwareSet}
    \cup {Query("findBestSolution", <<p>>, h, 0, "DEFAULT", TRUE, f) :
        p \in Problems, h \in HardwareSet, f \in FitnessInits}
    \cup {Query("findAllSolutions", <<p>>, h, 0, st, FALSE, DoubleMax) :
        p \in Problems, h \in HardwareSet, st \in SearchTypes}
    \cup {Query("findAllSolutionsGroupedGemm", ps, h, 0, st, FALSE, DoubleMax) :
        ps \in Batches, h \in HardwareSet, st \in SearchTypes}
    \cup {Query("findTopSolutions", <<p>>, h, k, "DEFAULT", FALSE, DoubleMax) :
        p \in Problems, h \in HardwareSet, k \in 0..MaxK}
    \cup {Query("findTopSolutionsGroupedGemm", ps, h, k, "DEFAULT", FALSE, DoubleMax) :
        ps \in Batches, h \in HardwareSet, k \in 0..MaxK}

\* virtual dispatch on the method called
Invoke(tbl, dbg, q) ==
    CASE q.op = "getSolutionByIndex" ->
            getSolutionByIndex(tbl, q.problems[1], q.hardware, q.arg)
      [] q.op = "findBestSolution" ->
            findBestSolution(tbl, dbg, q.problems[1], q.hardware, q.hasFitness,
                             q.fitness0)
      [] q.op = "findAllSolutions" ->
            findAllSolutions(tbl, q.problems[1], q.hardware, q.searchType)
      [] q.op = "findAllSolutionsGroupedGemm" ->
            findAllSolutionsGroupedGemm(tbl, q.problems, q.hardware, q.searchType)
      [] q.op = "findTopSolutions" ->
            findTopSolutions(tbl, q.problems[1], q.hardware, q.arg)
      [] q.op = "findTopSolutionsGroupedGemm" ->
            findTopSolutionsGroupedGemm(tbl, q.problems, q.hardware, q.arg)

\* a finished query: its inputs, the flags it ran under, what it returned
Finished(q, dbg, ret) == [query |-> q, debug |-> dbg, ret |-> ret]

\* Debug::Instance(): enableDebugSelection() is the one flag a method
\* branches on; printPropertyEvaluation() and printLibraryLogicIndex() only
\* guard writes to std::cout, which are not modelled
DebugFlags == [enableDebugSelection : BOOLEAN]

Idle == [query |-> Query("none", <<>>, 0, 0, "DEFAULT", FALSE, DoubleMax),
         debug |-> [enableDebugSelection |-> FALSE],
         ret |-> Returned(FALSE, NoSolution, {}, <<>>, DoubleMax, <<>>)]

\* a query of each method for each problem
SomeQueries ==
    UNION {{Query("getSolutionByIndex", <<p>>, 2, 2, "DEFAULT", FALSE, DoubleMax),
            Query("findBestSolution", <<p>>, 2, 0, "DEFAULT", TRUE, -1),
            Query("findAllSolutions", <<p>>, 2, 0, "DEFAULT", FALSE, DoubleMax),
            Query("findAllSolutionsGroupedGemm", <<p, 3>>, 2, 0, "DEFAULT", FALSE,
                  DoubleMax),
            Query("findTopSolutions", <<p>>, 2, 2, "DEFAULT", FALSE, DoubleMax),
            Query("findTopSolutionsGroupedGemm", <<p, 3>>, 2, 2, "DEFAULT", FALSE,
                  DoubleMax)} : p \in Problems}

\* a caller thread: the query it runs, the flags the query read, the rows
\* the table handed out for it, and what the libraries of the rows visited
\* so far returned (the locals of the call)
NoThread == [pc |-> "idle", query |-> Idle.query, debug |-> Idle.debug,
             matches |-> <<>>, found |-> <<>>]
NoThreads == [t \in Threads |-> NoThread]

----------------------------------------------------------------------------
(* Spec: one caller, one query at a time, against any table, in a process  *)
(* that runs without debug selection.                                      *)

Init ==
    /\ table \in TablesOf(MaxRows, Libraries)
    /\ debug = [enableDebugSelection |-> FALSE]
    /\ last = Idle
    /\ again = Idle
    /\ between = 0
    /\ threads = NoThreads

\* the caller issues query q and gets its result
Call(q) ==
    /\ last = Idle
    /\ last' = Finished(q, debug, Invoke(table, debug, q))
    /\ UNCHANGED <<table, debug, again, between, threads>>

\* the caller drops the result
Return ==
    /\ last # Idle
    /\ last' = Idle
    /\ UNCHANGED <<table, debug, again, between, threads>>

Next ==
    \/ \E q \in Queries : Call(q)
    \/ Return

Spec == Init /\ [][Next]_vars

(* SpecFail: as Spec, against tables some of whose nested libraries throw. *)

InitFail ==
    /\ table \in TablesOf(MaxSmall, Libraries \cup FailingLibraries)
    /\ debug \in DebugFlags
    /\ last = Idle
    /\ again = Idle
    /\ between = 0
    /\ threads = NoThreads

SpecFail == InitFail /\ [][Next]_vars

----------------------------------------------------------------------------
(* SpecDet: a caller issues a query and later the same query again, while  *)
(* the process changes the diagnostic flags and issues other queries in    *)
(* between.                                                                *)

InitDet ==
    /\ table \in TablesOf(MaxSmall, Libraries)
    /\ debug \in DebugFlags
    /\ last = Idle
    /\ again = Idle
    /\ between = 0
    /\ threads = NoThreads

\* the process sets the diagnostic flags between the two queries
SetDebug(d) ==
    /\ last # Idle /\ again = Idle
    /\ d # debug
    /\ debug' = d
    /\ UNCHANGED <<table, last, again, between, threads>>

\* another query runs between the two; the methods are const and keep
\* nothing, so all that is left of it is that it ran
Other(q) ==
    /\ last # Idle /\ again = Idle
    /\ between < MaxBetween
    /\ Invoke(table, debug, q).exc \in BOOLEAN
    /\ between' = between + 1
    /\ UNCHANGED <<table, debug, last, again, threads>>

\* the query of `last` is issued again
CallAgain ==
    /\ last # Idle /\ again = Idle
    /\ again' = Finished(last.query, debug, Invoke(table, debug, last.query))
    /\ UNCHANGED <<table, debug, last, between, threads>>

NextDet ==
    \/ \E q \in Queries : Call(q)
    \/ \E d \in DebugFlags : SetDebug(d)
    \/ \E q \in SomeQueries : Other(q)
    \/ CallAgain

SpecDet == InitDet /\ [][NextDet]_vars

----------------------------------------------------------------------------
(* SpecConc: caller threads run queries against the one table at the same  *)
(* time, each query one nested-library call at a time.                     *)

\* what the call made for row `library` of query q returns
Resolve(library, q) ==
    CASE q.op = "getSolutionByIndex" ->
            [set |-> {}] @@ TransformByIndex(library, q.problems[1], q.hardware, q.arg)
      [] q.op \in {"findBestSolution", "findTopSolutions"} ->
            [set |-> {}] @@ TransformBest(library, q.problems[1], q.hardware)
      [] q.op = "findTopSolutionsGroupedGemm" ->
            [set |-> {}] @@ TransformBestGrouped(library, q.problems, q.hardware)
      [] q.op = "findAllSolutions" ->
            [sol |-> NoSolution]
              @@ NestedFindAllSolutions(library, q.problems[1], q.hardware, q.searchType)
      [] q.op = "findAllSolutionsGroupedGemm" ->
            [sol |-> NoSolution]
              @@ NestedFindAllSolutionsGroupedGemm(library, q.problems, q.hardware,
                                                   q.searchType)

\* the loop over the rows ends before the last row
StopsEarly(q, dbg, found) ==
    CASE q.op = "getSolutionByIndex" -> Hits(found) # {}
      [] q.op = "findBestSolution" -> ~dbg.enableDebugSelection /\ Hits(found) # {}
      [] q.op \in {"findTopSolutions", "findTopSolutionsGroupedGemm"} ->
            Cardinality(Hits(found)) >= q.arg
      [] OTHER -> \E r \in 1..Len(found) : found[r].exc

\* what the method returns once its loop has ended
Collect(tbl, q, dbg, matches, found) ==
    LET rows == SubSeq(matches, 1, Len(found))
        match == findBestMatch(tbl, q.problems[1], rows, found)
    IN  CASE q.op = "getSolutionByIndex" ->
                Returned(FALSE, match.sol, {}, <<>>, DoubleMax, <<>>)
          [] q.op = "findBestSolution" ->
                IF dbg.enableDebugSelection
                THEN Returned(FALSE, findBestEvaluationSolution(rows, found).sol, {},
                              <<>>, q.fitness0, <<>>)
                ELSE Returned(FALSE, match.sol, {}, <<>>,
                              IF q.hasFitness THEN match.fitness ELSE q.fitness0, <<>>)
          [] q.op \in {"findTopSolutions", "findTopSolutionsGroupedGemm"} ->
                Returned(FALSE, NoSolution, {}, findTopMatch(rows, found, q.arg).vec,
                         DoubleMax, <<>>)
          [] OTHER ->
                UnionOfRows(rows, found, q.op, q.problems, q.hardware, q.searchType)

\* slip: the locals are static, one copy for all calls
Locals_Static(t) == CHOOSE u \in Threads : TRUE

\* where the locals of the call running on thread t live: on its own stack
Locals(t) == t

InitConc ==
    /\ table \in TablesOf(MaxSmall, Libraries)
    /\ debug \in DebugFlags
    /\ last = Idle
    /\ again = Idle
    /\ between = 0
    /\ threads = NoThreads

\* thread t enters method q: the flags are read and the table hands out the
\* rows to visit
Begin(t, q) ==
    /\ threads[t].pc = "idle"
    /\ threads' = [threads EXCEPT
          ![t].pc = "run",
          ![t].query = q,
          ![t].debug = debug,
          ![t].matches =
              IF q.op \in {"findAllSolutions", "findAllSolutionsGroupedGemm"}
                 /\ q.searchType # "DEFAULT"
              THEN GetAll(table) ELSE matchesInOrder(table, q.problems[1]),
          ![Locals(t)].found = <<>>]
    /\ UNCHANGED <<table, debug, last, again, between>>

\* thread t calls the nested library of the next row
Visit(t) ==
    LET th == threads[t]
        found == threads[Locals(t)].found
    IN  /\ th.pc = "run"
        /\ Len(found) < Len(th.matches)
        /\ ~StopsEarly(th.query, th.debug, found)
        /\ threads' = [threads EXCEPT
              ![Locals(t)].found =
                  Append(found, Resolve(table[th.matches[Len(found) + 1]].value,
                                        th.query))]
        /\ UNCHANGED <<table, debug, last, again, between>>

\* the loop of thread t has ended: the method returns
Finish(t) ==
    LET th == threads[t]
        found == threads[Locals(t)].found
    IN  /\ th.pc = "run"
        /\ Len(found) = Len(th.matches) \/ StopsEarly(th.query, th.debug, found)
        /\ threads' = [threads EXCEPT ![t].pc = "done"]
        /\ UNCHANGED <<table, debug, last, again, between>>

\* the caller on thread t takes the result
Take(t) ==
    /\ threads[t].pc = "done"
    /\ threads' = [threads EXCEPT ![t] = NoThread]
    /\ UNCHANGED <<table, debug, last, again, between>>

NextConc ==
    \/ \E t \in Threads, q \in SomeQueries : Begin(t, q)
    \/ \E t \in Threads : Visit(t)
    \/ \E t \in Threads : Finish(t)
    \/ \E t \in Threads : Take(t)

SpecConc == InitConc /\ [][NextConc]_vars

----------------------------------------------------------------------------
(* What the claims speak of, for the query in `last`.                      *)

Rows == 1..Len(table)
LastIs(op) == last # Idle /\ last.query.op = op
Problem == last.query.problems[1]
Hardware == last.query.hardware
DistanceOf(i) == Distance(table[i].key, Problem)

\* the row of R the problem ranks first
Nearest(R) == CHOOSE i \in R : \A j \in R \ {i} : Before(table, Problem, i, j)
\* the rank of row i among the rows of R
RankIn(R, i) == Cardinality({j \in R : Before(table, Problem, j, i)}) + 1
RowAt(R, n) == CHOOSE i \in R : RankIn(R, i) = n

BestOf(i) == NestedFindBestSolution(table[i].value, Problem, Hardware).sol
Resolvable == {i \in Rows : BestOf(i) # NoSolution}

VisitedRows(ret) == [r \in 1..Len(ret.calls) |-> ret.calls[r].row]
IsPrefix(a, b) == Len(a) <= Len(b) /\ SubSeq(b, 1, Len(a)) = a

----------------------------------------------------------------------------
\* C1: with debug selection off, findBestSolution returns the best solution
\* of the nearest row (equal distances: the row inserted first) whose nested
\* library resolves to a solution, writes that row's distance through the
\* fitness pointer when one is given, and has called the libraries of exactly
\* the rows up to that one, all nearer ones having resolved to nothing.
C1_BestSolutionIsNearestResolvable ==
    (LastIs("findBestSolution") /\ ~last.debug.enableDebugSelection
        /\ Resolvable # {}) =>
        LET i == Nearest(Resolvable)
        IN  /\ ~last.ret.exc
            /\ last.ret.sol = BestOf(i)
            /\ last.ret.sol \in Solutions
            /\ last.query.hasFitness => last.ret.fitness = DistanceOf(i)
            /\ VisitedRows(last.ret)
                 = SubSeq(matchesInOrder(table, Problem), 1, RankIn(Rows, i))
            /\ \A j \in Rows : Before(table, Problem, j, i) => BestOf(j) = NoSolution

\* rows at distances 2 and 5, the nearer one resolving to nothing: the
\* distance-5 row's solution with fitness 5
C1_Witness ==
    /\ LastIs("findBestSolution") /\ ~last.debug.enableDebugSelection
    /\ last.query.hasFitness
    /\ Len(table) = 2 /\ DistanceOf(1) = 2 /\ DistanceOf(2) = 5
    /\ BestOf(1) = NoSolution
    /\ last.ret.sol = BestOf(2) /\ last.ret.sol # NoSolution
    /\ last.ret.fitness = 5

C2_WitnessEmptyTable ==
    /\ LastIs("findBestSolution") /\ ~last.debug.enableDebugSelection
    /\ last.query.hasFitness /\ Len(table) = 0
    /\ last.ret.sol = NoSolution /\ last.ret.fitness = DoubleMax

\* what findTopSolutions returns: the best solutions of the first
\* numSolutions resolvable rows, in rank order, and nothing else
TopIsFirstKResolvable ==
    LET k == last.query.arg
        vec == last.ret.vec
    IN  /\ ~last.ret.exc
        /\ Len(vec) <= k
        /\ Len(vec) = Min({k, Cardinality(Resolvable)})
        /\ \A n \in 1..Len(vec) :
              vec[n] # NoSolution /\ vec[n] = BestOf(RowAt(Resolvable, n))

\* the fitness (distance) of the row the n-th solution comes from
TopFitness(n) == DistanceOf(RowAt(Resolvable, n))

\* C3 (as amended): findTopSolutions returns at most numSolutions solutions,
\* exactly the best solutions of the first numSolutions resolvable rows in
\* rank order, unresolvable rows skipped; their fitness never decreases along
\* the result (rows at equal distance follow in insertion order).
C3_TopSolutionsAreFirstKResolvable ==
    LastIs("findTopSolutions") =>
        /\ TopIsFirstKResolvable
        /\ \A n \in 1..(Len(last.ret.vec) - 1) : TopFitness(n) <= TopFitness(n + 1)

\* C3 as stated: the same, with the fitness strictly ascending.
C3_AsStated ==
    LastIs("findTopSolutions") =>
        /\ TopIsFirstKResolvable
        /\ \A n \in 1..(Len(last.ret.vec) - 1) : TopFitness(n) < TopFitness(n + 1)

\* five rows, those of ranks 2 and 4 unresolvable, numSolutions = 3: the
\* solutions of ranks 1, 3 and 5
C3_Witness ==
    /\ LastIs("findTopSolutions") /\ last.query.arg = 3 /\ Len(table) = 5
    /\ LET order == matchesInOrder(table, Problem)
       IN  /\ BestOf(order[2]) = NoSolution /\ BestOf(order[4]) = NoSolution
           /\ last.ret.vec = <<BestOf(order[1]), BestOf(order[3]), BestOf(order[5])>>
           /\ \A n \in 1..3 : last.ret.vec[n] # NoSolution

\* what the nested library of row i returns for findAllSolutions
AllOf(i) ==
    NestedFindAllSolutions(table[i].value, Problem, Hardware, last.query.searchType).set
AllGroupedOf(i) ==
    NestedFindAllSolutionsGroupedGemm(table[i].value, last.query.problems, Hardware,
                                      last.query.searchType).set

\* C4: findAllSolutions with DEFAULT returns the set union, over the rows in
\* rank order, of what each row's findAllSolutions(problem, hardware, DEFAULT)
\* returns: every returned solution comes from a row whose result has it, a
\* row with an empty result adds nothing and is no error, and every row is
\* asked once, nearest first.
C4_AllSolutionsIsUnionOfRankedRows ==
    (LastIs("findAllSolutions") /\ last.query.searchType = "DEFAULT") =>
        /\ ~last.ret.exc
        /\ last.ret.set = UNION {AllOf(i) : i \in Rows}
        /\ \A s \in last.ret.set : \E i \in Rows : AllOf(i) # {} /\ s \in AllOf(i)
        /\ VisitedRows(last.ret) = matchesInOrder(table, Problem)
        /\ \A r \in 1..Len(last.ret.calls) :
              last.ret.calls[r]
                = NestedCall(matchesInOrder(table, Problem)[r], "findAllSolutions",
                             <<Problem>>, Hardware, 0, "DEFAULT")

\* two rows return the same solution, a third returns another one and a row
\* returns nothing
C4_Witness ==
    /\ LastIs("findAllSolutions") /\ last.query.searchType = "DEFAULT"
    /\ \E i, j, l, m \in Rows :
          /\ i # j /\ AllOf(i) = AllOf(j) /\ AllOf(i) # {}
          /\ AllOf(l) = {} /\ ~(AllOf(m) \subseteq AllOf(i))
    /\ Cardinality(last.ret.set) = 2

\* the table with the keys of its rows in reverse: other distances, same libraries
Rekeyed(tbl) ==
    [i \in 1..Len(tbl) |-> [key |-> tbl[Len(tbl) + 1 - i].key, value |-> tbl[i].value]]

\* C5: findAllSolutions and findAllSolutionsGroupedGemm with a search type
\* other than DEFAULT ask every row of the table once, in table order
\* whatever the distances, hand the same search type on, and return the
\* union of what the rows return; the result is the same when the rows lie
\* at other distances.
C5_ExhaustiveSearchVisitsAllRows ==
    /\ (LastIs("findAllSolutions") /\ last.query.searchType # "DEFAULT") =>
          /\ ~last.ret.exc
          /\ last.ret.set = UNION {AllOf(i) : i \in Rows}
          /\ VisitedRows(last.ret) = [i \in Rows |-> i]
          /\ \A r \in 1..Len(last.ret.calls) :
                last.ret.calls[r]
                  = NestedCall(r, "findAllSolutions", <<Problem>>, Hardware, 0,
                               last.query.searchType)
          /\ Invoke(Rekeyed(table), last.debug, last.query) = last.ret
    /\ (LastIs("findAllSolutionsGroupedGemm") /\ last.query.searchType # "DEFAULT") =>
          /\ ~last.ret.exc
          /\ last.ret.set = UNION {AllGroupedOf(i) : i \in Rows}
          /\ VisitedRows(last.ret) = [i \in Rows |-> i]
          /\ \A r \in 1..Len(last.ret.calls) :
                last.ret.calls[r]
                  = NestedCall(r, "findAllSolutionsGroupedGemm", last.query.problems,
                               Hardware, 0, last.query.searchType)
          /\ Invoke(Rekeyed(table), last.debug, last.query) = last.ret

\* a table the problem does not rank in table order, with a solution that
\* does not apply to the problem and is returned all the same
C5_Witness ==
    /\ LastIs("findAllSolutions") /\ last.query.searchType # "DEFAULT"
    /\ Len(table) >= 3
    /\ matchesInOrder(table, Problem) # GetAll(table)
    /\ \E s \in last.ret.set : ~Applicable(s, Problem, Hardware)

\* the batches that begin with the problem the batch of `last` begins with
SameFirstProblem == {b \in Batches : b[1] = Problem}
\* the rows the query of `last` visits when given batch b instead
VisitedWith(b) ==
    VisitedRows(Invoke(table, last.debug, [last.query EXCEPT !.problems = b]))
\* every visited row's library is handed the whole batch
WholeBatchPassed(fn) ==
    \A r \in 1..Len(last.ret.calls) :
        /\ last.ret.calls[r].fn = fn
        /\ last.ret.calls[r].problems = last.query.problems
        /\ last.ret.calls[r].hardware = Hardware

\* C6 (as amended): grouped-GEMM matching depends only on problems[0].  For
\* two batches with the same problems[0] the table ranks the rows in the
\* same order, and the rows are visited along that order:
\* findAllSolutionsGroupedGemm (DEFAULT) visits every row, so the same rows
\* in the same order; findTopSolutionsGroupedGemm visits a prefix of the
\* order, which ends where numSolutions rows have resolved, so that of two
\* such batches one visit sequence is a prefix of the other.  Every visited
\* row's nested library is passed the entire batch.
C6_GroupedMatchingUsesFirstProblem ==
    /\ (LastIs("findAllSolutionsGroupedGemm") /\ last.query.searchType = "DEFAULT") =>
          /\ VisitedRows(last.ret) = matchesInOrder(table, Problem)
          /\ \A b \in SameFirstProblem : VisitedWith(b) = VisitedRows(last.ret)
          /\ WholeBatchPassed("findAllSolutionsGroupedGemm")
    /\ LastIs("findTopSolutionsGroupedGemm") =>
          /\ IsPrefix(VisitedRows(last.ret), matchesInOrder(table, Problem))
          /\ \A b \in SameFirstProblem :
                \/ IsPrefix(VisitedWith(b), VisitedRows(last.ret))
                \/ IsPrefix(VisitedRows(last.ret), VisitedWith(b))
          /\ WholeBatchPassed("findBestSolution")

\* C6 as stated: for both methods, two batches with the same problems[0]
\* make the table visit the same rows in the same order, and every visited
\* row's nested library is passed the entire batch.
C6_AsStated ==
    /\ (LastIs("findAllSolutionsGroupedGemm") /\ last.query.searchType = "DEFAULT") =>
          /\ \A b \in SameFirstProblem : VisitedWith(b) = VisitedRows(last.ret)
          /\ WholeBatchPassed("findAllSolutionsGroupedGemm")
    /\ LastIs("findTopSolutionsGroupedGemm") =>
          /\ \A b \in SameFirstProblem : VisitedWith(b) = VisitedRows(last.ret)
          /\ WholeBatchPassed("findBestSolution")

\* a batch of two different problems, ranked other than in table order, and
\* a batch with the same first problem for which fewer rows are visited
C6_Witness ==
    /\ LastIs("findTopSolutionsGroupedGemm")
    /\ Len(last.query.problems) = 2 /\ last.query.problems[2] # Problem
    /\ Len(table) >= 3 /\ matchesInOrder(table, Problem) # GetAll(table)
    /\ Len(last.ret.calls) >= 2
    /\ \E b \in SameFirstProblem : Len(VisitedWith(b)) < Len(last.ret.calls)

\* the table whose failing libraries are replaced by libraries that resolve
\* to nothing
WithFailuresEmpty(tbl) ==
    [i \in 1..Len(tbl) |->
        IF tbl[i].value.fails
        THEN [key |-> tbl[i].key, value |-> [sols |-> {}, fails |-> FALSE]]
        ELSE tbl[i]]

SomeRowFails == \E i \in Rows : table[i].value.fails

\* what the caller gets back
Outcome(ret) == [exc |-> ret.exc, sol |-> ret.sol, set |-> ret.set, vec |-> ret.vec,
                 fitness |-> ret.fitness]

\* C7: when the nested library of a row throws during findBestSolution,
\* findTopSolutions or findAllSolutions, no exception reaches the caller and
\* the method returns what it returns when that row resolves to nothing.
C7_FailingRowCountsAsEmpty ==
    (last # Idle /\ SomeRowFails
       /\ last.query.op \in {"findBestSolution", "findTopSolutions", "findAllSolutions"}) =>
        /\ ~last.ret.exc
        /\ Outcome(last.ret)
             = Outcome(Invoke(WithFailuresEmpty(table), last.debug, last.query))

\* the part of C7 that holds: findBestSolution and findTopSolutions, whose
\* rows are resolved by the table
C7_TableResolvedMethods ==
    (last # Idle /\ SomeRowFails
       /\ last.query.op \in {"findBestSolution", "findTopSolutions"}) =>
        /\ ~last.ret.exc
        /\ Outcome(last.ret)
             = Outcome(Invoke(WithFailuresEmpty(table), last.debug, last.query))

\* the answer of row i's library to the index lookup of `last`
ByIndexOf(i) ==
    NestedGetSolutionByIndex(table[i].value, Problem, Hardware, last.query.arg).sol
HasIndex == {i \in Rows : ByIndexOf(i) # NoSolution}

\* C8: getSolutionByIndex hands the same lookup (problem, hardware, index)
\* to the nested libraries of the rows, nearest first, and returns the
\* answer of the nearest row that has one (the best match of findBestMatch);
\* it returns no solution when no row has one.
C8_SolutionByIndexOfBestMatch ==
    LastIs("getSolutionByIndex") =>
        /\ ~last.ret.exc
        /\ HasIndex = {} => last.ret.sol = NoSolution
        /\ HasIndex # {} => last.ret.sol = ByIndexOf(Nearest(HasIndex))
        /\ IsPrefix(VisitedRows(last.ret), matchesInOrder(table, Problem))
        /\ \A r \in 1..Len(last.ret.calls) :
              last.ret.calls[r]
                = NestedCall(matchesInOrder(table, Problem)[r], "getSolutionByIndex",
                             <<Problem>>, Hardware, last.query.arg, "DEFAULT")

\* the nearest row has no solution of that index and a farther one has; the
\* best solution of that row is another one
C8_Witness ==
    /\ LastIs("getSolutionByIndex")
    /\ Len(table) >= 2 /\ HasIndex # {}
    /\ ByIndexOf(Nearest(Rows)) = NoSolution
    /\ last.ret.sol = last.query.arg
    /\ BestOf(Nearest(HasIndex)) # last.query.arg

C8_WitnessNoRow ==
    /\ LastIs("getSolutionByIndex") /\ Len(table) >= 1 /\ HasIndex = {}
    /\ last.ret.sol = NoSolution

C9_WitnessBest ==
    /\ again # Idle /\ again.query.op = "findBestSolution"
    /\ between >= 1 /\ debug.enableDebugSelection
    /\ again.debug = last.debug
    /\ again.ret.sol # NoSolution /\ again.ret.sol = last.ret.sol

\* what the query of thread t has returned
ResultOf(t) ==
    Collect(table, threads[t].query, threads[t].debug, threads[t].matches,
            threads[Locals(t)].found)

\* C10: queries leave the table as it is; a query that has returned on a
\* thread, whatever the other threads ran meanwhile, returned what the same
\* query returns when run alone; and a running query can always take its
\* next step, whatever the other threads are doing (no lock, no waiting).
C10_ConcurrentQueriesAreIndependent ==
    /\ [][table' = table]_vars
    /\ [](\A t \in Threads :
            threads[t].pc = "done" =>
                Outcome(ResultOf(t))
                  = Outcome(Invoke(table, threads[t].debug, threads[t].query)))
    /\ [](\A t \in Threads :
            threads[t].pc = "run" => ENABLED (Visit(t) \/ Finish(t)))

\* two threads inside different queries at once, each past its first row,
\* one of them returned
C10_Witness ==
    \E t, u \in Threads :
        /\ t # u
        /\ threads[t].pc = "done" /\ threads[u].pc = "run"
        /\ threads[t].query # threads[u].query
        /\ Len(threads[t].found) >= 2 /\ Len(threads[u].found) >= 1
        /\ Outcome(ResultOf(t)).sol # NoSolution

----------------------------------------------------------------------------
\* what the nested library of each row, in rank order, resolves to for the
\* query of `last`
BestInOrder ==
    LET order == matchesInOrder(table, Problem)
    IN  [r \in 1..Len(order) |->
            NestedFindBestSolution(table[order[r]].value, Problem, Hardware)]

\* what the table's evaluation path and its nearest-match search give for
\* the query of `last`
EvaluationOf == findBestEvaluationSolution(matchesInOrder(table, Problem), BestInOrder)
MatchOf == findBestMatch(table, Problem, matchesInOrder(table, Problem), BestInOrder)

\* C11: with debug selection on when findBestSolution is called, the method
\* returns what the table's evaluation path returns and asks the rows the
\* evaluation path asks, whatever the nearest-match search would have given,
\* and the caller's fitness variable holds afterwards the value it held
\* before the call, also when no solution is returned.
C11_DebugSelectionLeavesFitnessUntouched ==
    (LastIs("findBestSolution") /\ last.debug.enableDebugSelection) =>
        /\ ~last.ret.exc
        /\ last.ret.sol = EvaluationOf.sol
        /\ VisitedRows(last.ret) = EvaluationOf.rows
        /\ last.ret.fitness = last.query.fitness0

\* the evaluation path's solution is not the nearest match's, the nearest
\* match would have stopped at an earlier row, and the fitness is neither
\* the sentinel nor a row's distance
C11_Witness ==
    /\ LastIs("findBestSolution") /\ last.debug.enableDebugSelection
    /\ last.query.hasFitness
    /\ Len(table) = 2
    /\ last.ret.sol # NoSolution /\ MatchOf.sol # NoSolution
    /\ last.ret.sol # MatchOf.sol
    /\ Len(MatchOf.rows) < Len(last.ret.calls)
    /\ last.ret.fitness = last.query.fitness0
    /\ last.ret.fitness # MatchOf.fitness /\ last.ret.fitness # DoubleMax

\* no row resolves: no solution, and the fitness is still the caller's value
C11_WitnessNoSolution ==
    /\ LastIs("findBestSolution") /\ last.debug.enableDebugSelection
    /\ last.query.hasFitness
    /\ Len(table) >= 1
    /\ last.ret.sol = NoSolution
    /\ last.ret.fitness = last.query.fitness0 /\ last.ret.fitness # DoubleMax

====
